---- MODULE Spec2Model ----
(***************************************************************************)
(* Cash-loss calculator: the page script (src/unnamed/part_000, the wave-3 *)
(* build with CPI-derived rates) and the earlier build's computeLoss       *)
(* (src/app.js).                                                           *)
(*                                                                         *)
(* JavaScript numbers are modelled as exact rationals extended with NaN,   *)
(* +Infinity and -Infinity: a number is a record [n, d] with d > 0 for the *)
(* rational n/d in lowest terms, and d = 0 for the non-finite values       *)
(* (n = 0 NaN, n = 1 +Infinity, n = -1 -Infinity).  Rounding of binary64   *)
(* and the sign of zero are not modelled.                                  *)
(***************************************************************************)
EXTENDS Integers, Sequences, FiniteSets, TLC

(* ------------------------------------------------------------------ *)
(* Numbers                                                            *)
(* ------------------------------------------------------------------ *)

Abs(x) == IF x < 0 THEN -x ELSE x

Sign(x) == IF x < 0 THEN -1 ELSE IF x > 0 THEN 1 ELSE 0

RECURSIVE GCD(_, _)
GCD(a, b) == IF b = 0 THEN a ELSE GCD(b, a % b)

\* the rational n/d (d > 0) in lowest terms
Fin(n, d) == LET g == GCD(Abs(n), d) IN [n |-> n \div g, d |-> d \div g]

NaN == [n |-> 0, d |-> 0]

Inf(s) == [n |-> s, d |-> 0]

Int2Num(k) == [n |-> k, d |-> 1]

isNaN(a) == a.d = 0 /\ a.n = 0

isFinite(a) == a.d > 0

NumNeg(a) == [n |-> -a.n, d |-> a.d]

NumAdd(a, b) ==
    IF isNaN(a) \/ isNaN(b) THEN NaN
    ELSE IF a.d = 0 /\ b.d = 0 THEN (IF a.n = b.n THEN a ELSE NaN)
    ELSE IF a.d = 0 THEN a
    ELSE IF b.d = 0 THEN b
    ELSE LET g == GCD(a.d, b.d)
         IN  Fin(a.n * (b.d \div g) + b.n * (a.d \div g), a.d * (b.d \div g))

NumSub(a, b) == NumAdd(a, NumNeg(b))

NumMul(a, b) ==
    IF isNaN(a) \/ isNaN(b) THEN NaN
    ELSE IF a.d = 0 \/ b.d = 0
         THEN (IF a.n = 0 \/ b.n = 0 THEN NaN ELSE Inf(Sign(a.n) * Sign(b.n)))
    ELSE LET g1 == GCD(Abs(a.n), b.d)
             g2 == GCD(Abs(b.n), a.d)
         IN  Fin((a.n \div g1) * (b.n \div g2), (a.d \div g2) * (b.d \div g1))

NumDiv(a, b) ==
    IF isNaN(a) \/ isNaN(b) THEN NaN
    ELSE IF a.d = 0 THEN (IF b.d = 0 THEN NaN
                          ELSE Inf(IF b.n < 0 THEN -a.n ELSE a.n))
    ELSE IF b.d = 0 THEN Int2Num(0)
    ELSE IF b.n = 0 THEN (IF a.n = 0 THEN NaN ELSE Inf(Sign(a.n)))
    ELSE NumMul(a, [n |-> Sign(b.n) * b.d, d |-> Abs(b.n)])

\* a >= b, false when either is NaN
NumGE(a, b) ==
    IF isNaN(a) \/ isNaN(b) THEN FALSE
    ELSE IF a.d = 0 THEN (a.n = 1 \/ (b.d = 0 /\ b.n = -1))
    ELSE IF b.d = 0 THEN b.n = -1
    ELSE IF b.d = 1 THEN (a.n \div a.d) >= b.n
    ELSE NumSub(a, b).n >= 0

\* a > b, false when either is NaN
NumGT(a, b) == NumGE(a, b) /\ a # b

\* a <= b, false when either is NaN
NumLE(a, b) == NumGE(b, a)

\* Math.pow(base, years) for an integer exponent years >= 0
RECURSIVE MathPow(_, _)
MathPow(base, years) ==
    IF years = 0 THEN Int2Num(1) ELSE NumMul(base, MathPow(base, years - 1))

\* Math.floor of a finite number, as an integer
Floor(a) == a.n \div a.d

\* Math.round: the nearest integer, ties towards +Infinity; NaN and the
\* infinities are returned unchanged
MathRound(a) ==
    IF a.d = 0 THEN a
    ELSE Int2Num(Floor(a) + (IF 2 * (a.n % a.d) >= a.d THEN 1 ELSE 0))

(* ------------------------------------------------------------------ *)
(* JavaScript values of the dataset and of the DOM                     *)
(* ------------------------------------------------------------------ *)

\* a JavaScript value: undefined, null, a number or a string; a string is
\* a sequence of tokens, each one character or the word "Infinity"
Undefined == [t |-> "undefined", num |-> NaN, str |-> << >>]

Null == [t |-> "null", num |-> NaN, str |-> << >>]

JNum(x) == [t |-> "number", num |-> x, str |-> << >>]

JStr(s) == [t |-> "string", num |-> NaN, str |-> s]

DigitChars == {"0", "1", "2", "3", "4", "5", "6", "7", "8", "9"}

DigitVal(c) ==
    CASE c = "0" -> 0 [] c = "1" -> 1 [] c = "2" -> 2 [] c = "3" -> 3
      [] c = "4" -> 4 [] c = "5" -> 5 [] c = "6" -> 6 [] c = "7" -> 7
      [] c = "8" -> 8 [] c = "9" -> 9

\* first position >= pos of s that holds no white space
RECURSIVE SkipWhiteSpace(_, _)
SkipWhiteSpace(s, pos) ==
    IF pos <= Len(s) /\ s[pos] = " " THEN SkipWhiteSpace(s, pos + 1) ELSE pos

\* the run of digits of s from pos: its value, its length, the position after
RECURSIVE ReadDigits(_, _, _, _)
ReadDigits(s, pos, acc, cnt) ==
    IF pos <= Len(s) /\ s[pos] \in DigitChars
    THEN ReadDigits(s, pos + 1, 10 * acc + DigitVal(s[pos]), cnt + 1)
    ELSE [val |-> acc, cnt |-> cnt, pos |-> pos]

RECURSIVE Pow10(_)
Pow10(k) == IF k = 0 THEN 1 ELSE 10 * Pow10(k - 1)

\* parseFloat of a string: the longest prefix that is a decimal literal
\* (white space, sign, "Infinity" or digits with an optional fraction);
\* NaN when there is none.  Exponents are not in the alphabet.
ParseFloatStr(s) ==
    LET p0   == SkipWhiteSpace(s, 1)
        neg  == p0 <= Len(s) /\ s[p0] = "-"
        p1   == IF p0 <= Len(s) /\ s[p0] \in {"-", "+"} THEN p0 + 1 ELSE p0
        sg   == IF neg THEN -1 ELSE 1
        ip   == ReadDigits(s, p1, 0, 0)
        dot  == ip.pos <= Len(s) /\ s[ip.pos] = "."
        fp   == IF dot THEN ReadDigits(s, ip.pos + 1, 0, 0)
                ELSE [val |-> 0, cnt |-> 0, pos |-> ip.pos]
    IN  IF p1 <= Len(s) /\ s[p1] = "Infinity" THEN Inf(sg)
        ELSE IF ip.cnt = 0 /\ fp.cnt = 0 THEN NaN
        ELSE Fin(sg * (ip.val * Pow10(fp.cnt) + fp.val), Pow10(fp.cnt))

\* parseFloat(value): the argument is converted to a string first, so
\* undefined and null give NaN and a number gives itself
parseFloat(v) ==
    IF v.t = "string" THEN ParseFloatStr(v.str)
    ELSE IF v.t = "number" THEN v.num
    ELSE NaN

\* parseFiniteNumber: a number, or null (here: JavaScript's null value)
parseFiniteNumber(value) ==
    LET num == IF value.t = "number" THEN value.num ELSE parseFloat(value)
    IN  IF isFinite(num) THEN JNum(num) ELSE Null

(* ------------------------------------------------------------------ *)
(* The calculation core                                               *)
(* ------------------------------------------------------------------ *)

\* getInputs' null result, and the shape of its object result
NoInputs == [ok |-> FALSE, inflationRate |-> NaN, interestRate |-> NaN,
             hasRate |-> FALSE]

\* deriveInputs with the CPI guard written < 0 in place of <= 0
deriveInputsStrictGuard(cpiLatest, cpiPrevious, rateValue) ==
    IF \/ cpiLatest = Null
       \/ cpiPrevious = Null
       \/ NumGT(Int2Num(0), cpiLatest.num)
       \/ NumGT(Int2Num(0), cpiPrevious.num)
    THEN NoInputs
    ELSE [ok            |-> TRUE,
          inflationRate |-> NumSub(NumDiv(cpiLatest.num, cpiPrevious.num),
                                   Int2Num(1)),
          interestRate  |-> IF rateValue # Null
                            THEN NumDiv(rateValue.num, Int2Num(100))
                            ELSE Int2Num(0),
          hasRate       |-> rateValue # Null]

\* deriveInputs with hasRate taken from the truthiness of rateValue, so
\* that a rate of 0 counts as absent
deriveInputsTruthyRate(cpiLatest, cpiPrevious, rateValue) ==
    IF \/ cpiLatest = Null
       \/ cpiPrevious = Null
       \/ NumLE(cpiLatest.num, Int2Num(0))
       \/ NumLE(cpiPrevious.num, Int2Num(0))
    THEN NoInputs
    ELSE [ok            |-> TRUE,
          inflationRate |-> NumSub(NumDiv(cpiLatest.num, cpiPrevious.num),
                                   Int2Num(1)),
          interestRate  |-> IF rateValue # Null
                            THEN NumDiv(rateValue.num, Int2Num(100))
                            ELSE Int2Num(0),
          hasRate       |-> rateValue # Null /\ rateValue.num # Int2Num(0)]

\* getInputs from line 113 on, with the three parseFiniteNumber results
deriveInputs(cpiLatest, cpiPrevious, rateValue) ==
    IF \/ cpiLatest = Null
       \/ cpiPrevious = Null
       \/ NumLE(cpiLatest.num, Int2Num(0))
       \/ NumLE(cpiPrevious.num, Int2Num(0))
    THEN NoInputs
    ELSE [ok            |-> TRUE,
          inflationRate |-> NumSub(NumDiv(cpiLatest.num, cpiPrevious.num),
                                   Int2Num(1)),
          interestRate  |-> IF rateValue # Null
                            THEN NumDiv(rateValue.num, Int2Num(100))
                            ELSE Int2Num(0),
          hasRate       |-> rateValue # Null]

\* getInputs(country) for a country record (never called with null)
getInputs(country) ==
    deriveInputs(
        parseFiniteNumber(IF country.cpi.present THEN country.cpi.latest
                          ELSE Undefined),
        parseFiniteNumber(IF country.cpi.present THEN country.cpi.previous
                          ELSE Undefined),
        parseFiniteNumber(IF country.rate.present THEN country.rate.value
                          ELSE Undefined))

\* computeLoss with the opportunity cost subtracted instead of added
computeLossSignSlip(amount, inflationDecimal, savingsRateDecimal, years) ==
    LET factor == MathPow(NumAdd(Int2Num(1), inflationDecimal), years)
        inflationErosion ==
            NumMul(amount, NumSub(Int2Num(1), NumDiv(Int2Num(1), factor)))
        opportunityCost ==
            NumMul(NumDiv(amount, factor),
                   NumSub(MathPow(NumAdd(Int2Num(1), savingsRateDecimal), years),
                          Int2Num(1)))
    IN  NumSub(inflationErosion, opportunityCost)

\* computeLoss with the erosion term's sign turned: P*(1/(1+i)^n - 1)
computeLossErosionSlip(amount, inflationDecimal, savingsRateDecimal, years) ==
    LET factor == MathPow(NumAdd(Int2Num(1), inflationDecimal), years)
        inflationErosion ==
            NumMul(amount, NumSub(NumDiv(Int2Num(1), factor), Int2Num(1)))
        opportunityCost ==
            NumMul(NumDiv(amount, factor),
                   NumSub(MathPow(NumAdd(Int2Num(1), savingsRateDecimal), years),
                          Int2Num(1)))
    IN  NumAdd(inflationErosion, opportunityCost)

\* computeLoss of the wave-3 build: inflation erosion + opportunity cost
computeLoss(amount, inflationDecimal, savingsRateDecimal, years) ==
    LET factor == MathPow(NumAdd(Int2Num(1), inflationDecimal), years)
        inflationErosion ==
            NumMul(amount, NumSub(Int2Num(1), NumDiv(Int2Num(1), factor)))
        opportunityCost ==
            NumMul(NumDiv(amount, factor),
                   NumSub(MathPow(NumAdd(Int2Num(1), savingsRateDecimal), years),
                          Int2Num(1)))
    IN  NumAdd(inflationErosion, opportunityCost)

\* computeLoss of the earlier build (src/app.js): opportunity cost only
computeLossApp(amount, inflationDecimal, savingsRateDecimal, years) ==
    LET factor       == MathPow(NumAdd(Int2Num(1), inflationDecimal), years)
        growthFactor == MathPow(NumAdd(Int2Num(1), savingsRateDecimal), years)
    IN  NumMul(NumDiv(amount, factor), NumSub(growthFactor, Int2Num(1)))

\* the amount test without its sign check
hasAmountAnySign(amount) == ~isNaN(amount)

\* the amount test of runCalculation: !isNaN(amount) && amount >= 0
hasAmount(amount) == ~isNaN(amount) /\ NumGE(amount, Int2Num(0))

(* ------------------------------------------------------------------ *)
(* Display                                                            *)
(* ------------------------------------------------------------------ *)

\* a displayed text: the placeholder, or a currency symbol, a number and a
\* suffix ("M", "k" or none)
Placeholder == [kind |-> "dash", sym |-> "", num |-> Int2Num(0), suffix |-> ""]

\* (value / unit).toFixed(1) for a finite value >= 0 and unit a power of
\* ten: the nearest tenth, ties upwards
ToFixed1(value, unit) ==
    Fin((Floor(value) + unit \div 20) \div (unit \div 10), 10)

\* formatMoney(value, currencySymbol)
formatMoney(value, currencySymbol) ==
    IF NumGE(value, Int2Num(1000000))
    THEN [kind |-> "money", sym |-> currencySymbol, suffix |-> "M",
          num |-> IF isFinite(value) THEN ToFixed1(value, 1000000) ELSE value]
    ELSE IF NumGE(value, Int2Num(1000))
    THEN [kind |-> "money", sym |-> currencySymbol, suffix |-> "k",
          num |-> ToFixed1(value, 1000)]
    ELSE [kind |-> "money", sym |-> currencySymbol, suffix |-> "",
          num |-> MathRound(value)]

\* what the page's markup shows in a result element before any script write
\* (the markup is not part of the sources)
Markup == [kind |-> "markup", sym |-> "", num |-> Int2Num(0), suffix |-> ""]

(* ------------------------------------------------------------------ *)
(* Program constants and the datasets the model loads                  *)
(* ------------------------------------------------------------------ *)

FALLBACK_COUNTRY_ID == "US"

FADE_OUT_MS == 130

\* the delay animateResultNumbers uses under prefers-reduced-motion
REDUCED_MS == 80

\* the horizons runCalculation displays
Horizons == {1, 5, 10}

Cpi(latest, previous) ==
    [present |-> TRUE, latest |-> latest, previous |-> previous]

NoCpi == [present |-> FALSE, latest |-> Undefined, previous |-> Undefined]

Rate(value) == [present |-> TRUE, value |-> value]

NoRate == [present |-> FALSE, value |-> Undefined]

Country(id, sym, cpi, rate) ==
    [id |-> id, currencySymbol |-> sym, cpi |-> cpi, rate |-> rate]

JInt(k) == JNum(Int2Num(k))

\* FALLBACK_COUNTRIES: one record, id US, symbol $, a positive finite CPI
\* pair with latest > previous and a positive finite rate.  The source's
\* figures (CPI 102.1 / 100.0, rate 4.0) need (1021/1000)^10 exactly, which
\* is beyond the integers of the checker; the record keeps their kind with
\* the figures 3 / 2 and 50.
FALLBACK_COUNTRIES == << Country("US", "$", Cpi(JInt(3), JInt(2)), Rate(JInt(50))) >>

\* the datasets data/countries.json may hold: records with valid CPI pairs
\* (numbers or numeric strings; inflation, none, deflation), with a missing,
\* unparsable, zero, negative or non-finite CPI value, and with a rate that
\* is present (zero, positive, negative, numeric string), absent or unusable
Datasets ==
    { << Country("US", "$", Cpi(JInt(2), JInt(1)), Rate(JInt(100))),
         Country("FR", "E", Cpi(JInt(3), JInt(2)), Rate(JInt(0))),
         Country("DE", "",  Cpi(JInt(1), JInt(2)), NoRate) >>,
      << Country("FR", "E", Cpi(JInt(1), JInt(1)), Rate(JStr(<<"5", "0">>))),
         Country("JP", "Y", Cpi(JStr(<<"3">>), JStr(<<"2", ".", "0">>)),
                 Rate(Undefined)),
         Country("DE", "E", Cpi(JInt(2), JInt(0)), Rate(JInt(100))) >>,
      << Country("US", "$", NoCpi, Rate(JInt(100))),
         Country("FR", "E", Cpi(JStr(<<"x">>), JInt(1)), Rate(JInt(0))),
         Country("JP", "Y", Cpi(JStr(<<"2", "x">>), JInt(1)),
                 Rate(JStr(<<"x">>))) >>,
      << Country("DE", "E", Cpi(Undefined, JInt(1)), Rate(JInt(0))),
         Country("US", "$", Cpi(JInt(2), JInt(-1)), NoRate),
         Country("FR", "E", Cpi(Null, JInt(2)), Rate(Null)),
         Country("JP", "Y", Cpi(JInt(1), JInt(2)), Rate(JInt(-50))) >>,
      << Country("JP", "Y", Cpi(JNum(Inf(1)), JInt(1)), Rate(JInt(0))),
         Country("DE", "E", Cpi(JInt(2), JNum(NaN)), Rate(JInt(0))),
         Country("FR", "E", Cpi(JInt(2), JInt(2)), Rate(JNum(NaN))) >> }

\* what the amount field may hold
AmountTexts ==
    { << >>, <<"x">>, <<"-", "1">>, <<"2">>, <<"1", "0", "0", "0">>,
      <<"Infinity">> }

\* the most pending timers the model lets accumulate
MaxTimers == 1

(* ------------------------------------------------------------------ *)
(* State                                                              *)
(* ------------------------------------------------------------------ *)

VARIABLES
    pc,             \* the startup promise chain: "load", "geo", "done", "failed"
    loadResult,     \* how the fetch of data/countries.json settled
    countryData,    \* the countryData binding
    options,        \* the option values of the country select, in order
    selected,       \* countrySelect.value ("" when no option is selected)
    amountText,     \* amountInput.value
    reducedMotion,  \* what prefersReducedMotion() answers (fixed for a visit)
    headline,       \* setEmptyState's classes: "markup", "empty", "amount"
    interest,       \* toggleInterestExplanation's classes: "markup", "rate",
                    \* "inflationOnly"
    lossText,       \* textContent of loss-1y, loss-5y, loss-10y
    timers,         \* pending fade-out callbacks of animateResultNumbers, in
                    \* scheduling order
    lastRun,        \* what the most recent runCalculation call did
    lastEvent,      \* "run" right after a completed runCalculation
    startRuns,      \* runCalculation calls made by the startup chain
    calc,           \* a direct call of computeLoss: arguments and results
    popup           \* the 'how calculated' popup: what openPopup last did

uiVars == << pc, loadResult, countryData, options, selected, amountText, reducedMotion,
             headline, interest, lossText, timers, lastRun,
             lastEvent, startRuns, popup >>

vars == << pc, loadResult, countryData, options, selected, amountText, reducedMotion,
           headline, interest, lossText, timers, lastRun,
           lastEvent, startRuns, calc, popup >>

\* countryData values: an object with or without an array under
\* "countries", null, or a primitive (a number, a string, a boolean)
DataObject(countries) ==
    [kind |-> "object", has |-> TRUE, countries |-> countries]

DataNoCountries == [kind |-> "object", has |-> FALSE, countries |-> << >>]

DataNull == [kind |-> "null", has |-> FALSE, countries |-> << >>]

DataPrimitive == [kind |-> "primitive", has |-> FALSE, countries |-> << >>]

Dashes == [y1 |-> Placeholder, y5 |-> Placeholder, y10 |-> Placeholder]

NoValues == [y1 |-> NaN, y5 |-> NaN, y10 |-> NaN]

NoRun == [ran |-> FALSE, threw |-> FALSE, amount |-> NaN, hasAmount |-> FALSE,
          country |-> 0, derived |-> FALSE, inputs |-> NoInputs,
          computed |-> FALSE,
          values |-> NoValues, sym |-> "", scheduled |-> FALSE,
          timersBefore |-> 0]

\* the popup before openPopup and after closePopup: hidden, no content
ClosedPopup == [open |-> FALSE, threw |-> FALSE, hasCountry |-> FALSE,
                hasCpi |-> FALSE, inputs |-> NoInputs,
                content |-> [shape |-> "empty", interest |-> << >>]]

IdleCalc == [P |-> Int2Num(0), i |-> Int2Num(0), r |-> Int2Num(0), n |-> 1,
             done |-> FALSE, loss |-> NaN, lossApp |-> NaN,
             stepped |-> FALSE, prev |-> NaN, prevApp |-> NaN]

(* ------------------------------------------------------------------ *)
(* The page script's functions                                        *)
(* ------------------------------------------------------------------ *)

\* countryData.countries || []
CountriesOrEmpty(cd) == IF cd.has THEN cd.countries ELSE << >>

\* fillCountrySelect: one option per record, valued c.id
fillCountrySelect(countries) == [k \in 1..Len(countries) |-> countries[k].id]

\* the value of a single select after its options are replaced: the first
\* option is selected when there is one
ValueAfterFill(opts) == IF Len(opts) > 0 THEN opts[1] ELSE ""

\* countrySelect.value = v: v when an option has that value, otherwise no
\* option is selected and the value reads ""
ValueAfterSet(opts, v) ==
    IF \E k \in 1..Len(opts) : opts[k] = v THEN v ELSE ""

\* getCountry(): the index of the first record whose id is the select's
\* value, 0 for null (countryData is not null here)
getCountry(cd, sel) ==
    LET cs   == CountriesOrEmpty(cd)
        hits == {k \in 1..Len(cs) : cs[k].id = sel}
    IN  IF hits = {} THEN 0 ELSE CHOOSE k \in hits : \A j \in hits : k <= j

\* animateResultNumbers(values, sym): the timer queue with the fade-out
\* callback scheduled.  The animation classes it toggles, and the nested
\* fade-in callback that only removes them, are presentation and are left
\* out.
animateResultNumbers(values, sym) ==
    Append(timers,
           [values |-> values, sym |-> sym,
            ms |-> IF reducedMotion THEN REDUCED_MS ELSE FADE_OUT_MS])

\* what a runCalculation call that changes nothing leaves and logs
Unchanged(amount) ==
    [threw |-> FALSE, headline |-> headline, interest |-> interest,
     lossText |-> lossText, timers |-> timers,
     log |-> [NoRun EXCEPT !.ran = TRUE, !.amount = amount,
                           !.timersBefore = Len(timers)]]

\* the values object of runCalculation
lossValues(amount, inputs) ==
    [y1  |-> NumAdd(NumMul(amount, inputs.inflationRate),
                    NumMul(amount, inputs.interestRate)),
     y5  |-> computeLoss(amount, inputs.inflationRate, inputs.interestRate, 5),
     y10 |-> computeLoss(amount, inputs.inflationRate, inputs.interestRate, 10)]

\* runCalculation from toggleInterestExplanation(inputs.hasRate) on
showLoss(amount, idx, sym, inputs, values) ==
    [Unchanged(amount) EXCEPT
        !.headline = "amount",
        !.interest = IF inputs.hasRate THEN "rate" ELSE "inflationOnly",
        !.timers = animateResultNumbers(values, sym),
        !.log.hasAmount = TRUE, !.log.country = idx, !.log.sym = sym,
        !.log.derived = TRUE, !.log.inputs = inputs, !.log.computed = TRUE,
        !.log.values = values, !.log.scheduled = TRUE]

\* runCalculation for a country found, with getInputs' result
withCountry(amount, idx, sym, inputs) ==
    IF ~inputs.ok
    THEN [Unchanged(amount) EXCEPT
            !.headline = "amount", !.interest = "inflationOnly",
            !.lossText = Dashes, !.log.hasAmount = TRUE,
            !.log.country = idx, !.log.sym = sym, !.log.derived = TRUE]
    ELSE showLoss(amount, idx, sym, inputs, lossValues(amount, inputs))

\* runCalculation after its first two lines, with the parsed amount and
\* getCountry's result
withAmount(amount, cd, idx) ==
    IF ~hasAmount(amount)
    THEN [Unchanged(amount) EXCEPT !.headline = "empty", !.lossText = Dashes,
                                   !.log.country = idx]
    ELSE IF idx = 0
    THEN [Unchanged(amount) EXCEPT
            !.headline = "amount", !.interest = "inflationOnly",
            !.lossText = Dashes, !.log.hasAmount = TRUE]
    ELSE withCountry(amount, idx,
                     CountriesOrEmpty(cd)[idx].currencySymbol,
                     getInputs(CountriesOrEmpty(cd)[idx]))

\* runCalculation() with amountInput.value = amt, countryData = cd and
\* countrySelect.value = sel: the page state it leaves and what it did
runCalculation(amt, cd, sel) ==
    IF cd.kind = "null"
    THEN \* getCountry reads countryData.countries: TypeError
         [Unchanged(parseFloat(JStr(amt))) EXCEPT !.threw = TRUE,
                                                  !.log.threw = TRUE]
    ELSE withAmount(parseFloat(JStr(amt)), cd, getCountry(cd, sel))

\* the page state a runCalculation call leaves
Commit(res) ==
    /\ Len(res.timers) <= MaxTimers
    /\ headline' = res.headline
    /\ interest' = res.interest
    /\ lossText' = res.lossText
    /\ timers' = res.timers
    /\ lastRun' = res.log
    /\ lastEvent' = IF res.threw THEN "other" ELSE "run"

(* ------------------------------------------------------------------ *)
(* Startup: loadCountryData().then(fillCountrySelect)                  *)
(*   .then(preSelectCountryFromIP).then(runCalculation).catch(...)     *)
(* ------------------------------------------------------------------ *)

\* how the fetch of data/countries.json may settle: it rejects, its body is
\* not JSON, or the body parses to null, to a primitive, to an object
\* without a countries array, or to an object with one
LoadOutcomes ==
    {[how |-> "reject", data |-> DataNull],
     [how |-> "notjson", data |-> DataNull],
     [how |-> "null", data |-> DataNull],
     [how |-> "primitive", data |-> DataPrimitive],
     [how |-> "nocountries", data |-> DataNoCountries],
     [how |-> "list", data |-> DataObject(<< >>)]}
    \cup {[how |-> "list", data |-> DataObject(ds)] : ds \in Datasets}

\* how the geolocation lookup may settle; code "" is a body without a
\* countryCode (or with an empty one)
GeoOutcomes ==
    {[how |-> "reject", code |-> ""], [how |-> "notjson", code |-> ""]}
    \cup {[how |-> "json", code |-> c] : c \in {"", "US", "FR", "ZZ"}}

\* the chain's catch handler, entered with countryData = cd
CatchHandler(cd) ==
    IF cd.kind # "object"
    THEN \* countryData.countries = ... on null or on a primitive (strict
         \* mode): TypeError, the chain ends rejected
         /\ pc' = "failed"
         /\ countryData' = cd
         /\ lastEvent' = "other"
         /\ UNCHANGED << options, selected, headline, interest, lossText,
                         timers, lastRun, startRuns >>
    ELSE LET cd2  == DataObject(FALLBACK_COUNTRIES)
             opts == fillCountrySelect(cd2.countries)
             sel  == ValueAfterSet(opts, FALLBACK_COUNTRY_ID)
         IN  /\ countryData' = cd2
             /\ options' = opts
             /\ selected' = sel
             /\ Commit(runCalculation(amountText, cd2, sel))
             /\ startRuns' = startRuns + 1
             /\ pc' = "done"

\* the fetch of data/countries.json settles: loadCountryData's callbacks,
\* fillCountrySelect and the start of preSelectCountryFromIP
loadCountryData(outcome) ==
    /\ pc = "load"
    /\ loadResult' = outcome.how
    /\ UNCHANGED << amountText, reducedMotion, calc, popup >>
    /\ IF outcome.how \in {"reject", "notjson"}
       THEN CatchHandler(countryData)
       ELSE IF outcome.data.kind = "null"
       THEN \* countryData = data, then data.countries: TypeError
            CatchHandler(outcome.data)
       ELSE LET opts == fillCountrySelect(CountriesOrEmpty(outcome.data))
            IN  /\ countryData' = outcome.data
                /\ options' = opts
                /\ selected' = ValueAfterFill(opts)
                /\ pc' = "geo"
                /\ lastEvent' = "other"
                /\ UNCHANGED << headline, interest, lossText, timers,
                                lastRun, startRuns >>

\* PreSelectTarget with the first record tried before the 'US' fallback
PreSelectTargetFirstRecord(cd, code) ==
    LET ids == {cd.countries[k].id : k \in 1..Len(cd.countries)}
    IN  IF code # "" /\ code \in ids THEN code
        ELSE IF Len(cd.countries) > 0 THEN cd.countries[1].id
        ELSE IF FALLBACK_COUNTRY_ID \in ids THEN FALLBACK_COUNTRY_ID
        ELSE "undefined"

\* the value preSelectCountryFromIP gives the select, for a geolocated code
\* ("" when there is none)
PreSelectTarget(cd, code) ==
    LET ids == {cd.countries[k].id : k \in 1..Len(cd.countries)}
    IN  IF code # "" /\ code \in ids THEN code
        ELSE IF FALLBACK_COUNTRY_ID \in ids THEN FALLBACK_COUNTRY_ID
        ELSE IF Len(cd.countries) > 0 THEN cd.countries[1].id
        ELSE "undefined"

\* the geolocation lookup settles: preSelectCountryFromIP's callbacks, then
\* runCalculation
preSelectCountryFromIP(outcome) ==
    /\ pc = "geo"
    /\ UNCHANGED << loadResult, amountText, reducedMotion, calc, popup >>
    /\ IF ~countryData.has
       THEN \* countryData.countries.some on undefined: TypeError in the
            \* callback and again in preSelectCountryFromIP's own catch
            CatchHandler(countryData)
       ELSE LET code == IF outcome.how = "json" THEN outcome.code ELSE ""
                sel  == ValueAfterSet(options,
                                      PreSelectTarget(countryData, code))
            IN  /\ selected' = sel
                /\ Commit(runCalculation(amountText, countryData, sel))
                /\ startRuns' = startRuns + 1
                /\ pc' = "done"
                /\ UNCHANGED << countryData, options >>

(* ------------------------------------------------------------------ *)
(* Events                                                             *)
(* ------------------------------------------------------------------ *)

\* 'input' / 'change' on the amount field
AmountInput(text) ==
    /\ amountText' = text
    /\ Commit(runCalculation(text, countryData, selected))
    /\ UNCHANGED << pc, loadResult, countryData, options, selected, reducedMotion,
                    startRuns, calc, popup >>

\* 'change' on the country select: the user picks another option
CountryChange(k) ==
    /\ k \in 1..Len(options)
    /\ options[k] # selected
    /\ selected' = options[k]
    /\ Commit(runCalculation(amountText, countryData, options[k]))
    /\ UNCHANGED << pc, loadResult, countryData, options, amountText, reducedMotion,
                    startRuns, calc, popup >>

\* timer k may run now: no timer scheduled before it is due sooner or at
\* the same time
Due(k) == \A j \in 1..(k - 1) : timers[j].ms > timers[k].ms

Remove(seq, k) == SubSeq(seq, 1, k - 1) \o SubSeq(seq, k + 1, Len(seq))

\* the fade-out callback of animateResultNumbers runs
FadeOutElapsed(k) ==
    /\ k \in 1..Len(timers)
    /\ Due(k)
    /\ lossText' = [y1  |-> formatMoney(timers[k].values.y1, timers[k].sym),
                    y5  |-> formatMoney(timers[k].values.y5, timers[k].sym),
                    y10 |-> formatMoney(timers[k].values.y10, timers[k].sym)]
    /\ timers' = Remove(timers, k)
    /\ lastEvent' = "other"
    /\ UNCHANGED << pc, loadResult, countryData, options, selected, amountText,
                    reducedMotion, headline, interest, lastRun, startRuns,
                    calc, popup >>

Init ==
    /\ pc = "load"
    /\ loadResult = "pending"
    /\ countryData = DataObject(<< >>)
    /\ options = << >>
    /\ selected = ""
    /\ amountText = << >>
    /\ reducedMotion \in BOOLEAN
    /\ headline = "markup"
    /\ interest = "markup"
    /\ lossText = [y1 |-> Markup, y5 |-> Markup, y10 |-> Markup]
    /\ timers = << >>
    /\ lastRun = NoRun
    /\ lastEvent = "other"
    /\ startRuns = 0
    /\ calc = IdleCalc
    /\ popup = ClosedPopup

Next ==
    \/ \E outcome \in LoadOutcomes : loadCountryData(outcome)
    \/ \E outcome \in GeoOutcomes : preSelectCountryFromIP(outcome)
    \/ \E text \in AmountTexts : AmountInput(text)
    \/ \E k \in 1..Len(options) : CountryChange(k)
    \/ \E k \in 1..Len(timers) : FadeOutElapsed(k)

Spec == Init /\ [][Next]_vars

(* ------------------------------------------------------------------ *)
(* The 'how calculated' popup                                         *)
(* ------------------------------------------------------------------ *)

\* the markup buildHowCalculatedPopup returns, by its parts: the generic
\* text, or the full explanation with the elements of its interest section
\* in order (the numbers substituted into the texts are left out)
PlaceholderPopup == [shape |-> "placeholder", interest |-> << >>]

\* buildHowCalculatedPopup with hasRate taken from the truthiness of
\* rateValue, so that a rate of 0 gets the 'unavailable' note
buildHowCalculatedPopupTruthyRate(hasCountry, country, inputs) ==
    IF ~hasCountry \/ ~country.cpi.present \/ ~inputs.ok
    THEN PlaceholderPopup
    ELSE LET rateValue == parseFiniteNumber(IF country.rate.present
                                            THEN country.rate.value
                                            ELSE Undefined)
             hasRate == rateValue # Null /\ rateValue.num # Int2Num(0)
             interestSubstitution ==
                 IF hasRate THEN "interestRate = rateValue / 100 = percent"
                 ELSE "rate unavailable, interestRate = 0"
         IN  [shape |-> "full",
              interest |->
                 IF hasRate
                 THEN << [tag |-> "p", text |-> "Rate value"],
                         [tag |-> "code",
                          text |-> "interestRate = rateValue / 100"],
                         [tag |-> "code", text |-> interestSubstitution] >>
                 ELSE << [tag |-> "p", text |-> interestSubstitution] >>]

\* buildHowCalculatedPopup(country, inputs); hasCountry is FALSE for a null
\* country, and inputs.ok is FALSE for null inputs
buildHowCalculatedPopup(hasCountry, country, inputs) ==
    IF ~hasCountry \/ ~country.cpi.present \/ ~inputs.ok
    THEN PlaceholderPopup
    ELSE LET rateValue == parseFiniteNumber(IF country.rate.present
                                            THEN country.rate.value
                                            ELSE Undefined)
             hasRate == rateValue # Null
             interestSubstitution ==
                 IF hasRate THEN "interestRate = rateValue / 100 = percent"
                 ELSE "rate unavailable, interestRate = 0"
         IN  [shape |-> "full",
              interest |->
                 IF hasRate
                 THEN << [tag |-> "p", text |-> "Rate value"],
                         [tag |-> "code",
                          text |-> "interestRate = rateValue / 100"],
                         [tag |-> "code", text |-> interestSubstitution] >>
                 ELSE << [tag |-> "p", text |-> interestSubstitution] >>]

\* openPopup's body after getCountry() returned index idx (0 for null)
showPopup(cd, idx) ==
    LET hasCountry == idx # 0
        country == IF hasCountry THEN CountriesOrEmpty(cd)[idx]
                   ELSE FALLBACK_COUNTRIES[1]
        inputs  == IF hasCountry THEN getInputs(country) ELSE NoInputs
    IN  [open |-> TRUE, threw |-> FALSE, hasCountry |-> hasCountry,
         hasCpi |-> hasCountry /\ country.cpi.present, inputs |-> inputs,
         content |-> buildHowCalculatedPopup(hasCountry, country, inputs)]

\* a click on a [data-popup] link: openPopup()
openPopup ==
    /\ popup' = IF countryData.kind = "null"
                THEN \* getCountry reads countryData.countries: TypeError
                     \* before buildHowCalculatedPopup is called
                     [popup EXCEPT !.threw = TRUE]
                ELSE showPopup(countryData, getCountry(countryData, selected))
    /\ lastEvent' = "other"
    /\ UNCHANGED << pc, loadResult, countryData, options, selected,
                    amountText, reducedMotion, headline, interest, lossText,
                    timers, lastRun, startRuns, calc >>

\* the close button, a click on the overlay, or Escape: closePopup()
closePopup ==
    /\ popup' = ClosedPopup
    /\ lastEvent' = "other"
    /\ UNCHANGED << pc, loadResult, countryData, options, selected,
                    amountText, reducedMotion, headline, interest, lossText,
                    timers, lastRun, startRuns, calc >>

\* the page with the amount field left alone: startup, country changes and
\* the popup
NextPopup ==
    \/ \E outcome \in LoadOutcomes : loadCountryData(outcome)
    \/ \E outcome \in GeoOutcomes : preSelectCountryFromIP(outcome)
    \/ \E k \in 1..Len(options) : CountryChange(k)
    \/ openPopup
    \/ closePopup

SpecPopup == Init /\ [][NextPopup]_vars

(* ------------------------------------------------------------------ *)
(* computeLoss called directly                                        *)
(* ------------------------------------------------------------------ *)

\* the longest horizon the direct calls step to
MaxYears == 5

LossAmounts == {Int2Num(0), Int2Num(1), Int2Num(2)}

\* rates with 1 + rate < 0, = 0 and > 0
LossRates == {Int2Num(-2), Int2Num(-1), Fin(-1, 2), Int2Num(0), Fin(1, 2),
              Int2Num(1)}

\* computeLoss(P, i, r, n) in both builds
CallComputeLoss ==
    /\ ~calc.done
    /\ calc' = [calc EXCEPT
                  !.done = TRUE,
                  !.loss = computeLoss(calc.P, calc.i, calc.r, calc.n),
                  !.lossApp = computeLossApp(calc.P, calc.i, calc.r, calc.n)]
    /\ UNCHANGED uiVars

\* the same call one year further, the previous results kept
NextHorizon ==
    /\ calc.done
    /\ calc.n < MaxYears
    /\ calc' = [calc EXCEPT
                  !.n = calc.n + 1,
                  !.stepped = TRUE,
                  !.prev = calc.loss,
                  !.prevApp = calc.lossApp,
                  !.loss = computeLoss(calc.P, calc.i, calc.r, calc.n + 1),
                  !.lossApp = computeLossApp(calc.P, calc.i, calc.r,
                                             calc.n + 1)]
    /\ UNCHANGED uiVars

InitLoss ==
    /\ pc = "load"
    /\ loadResult = "pending"
    /\ countryData = DataObject(<< >>)
    /\ options = << >>
    /\ selected = ""
    /\ amountText = << >>
    /\ reducedMotion = FALSE
    /\ headline = "markup"
    /\ interest = "markup"
    /\ lossText = [y1 |-> Markup, y5 |-> Markup, y10 |-> Markup]
    /\ timers = << >>
    /\ lastRun = NoRun
    /\ lastEvent = "other"
    /\ startRuns = 0
    /\ popup = ClosedPopup
    /\ \E P \in LossAmounts, i \in LossRates, r \in LossRates,
          n \in Horizons \cup (1..MaxYears) :
          calc = [IdleCalc EXCEPT !.P = P, !.i = i, !.r = r, !.n = n]

NextLoss == CallComputeLoss \/ NextHorizon

SpecLoss == InitLoss /\ [][NextLoss]_vars

(* ------------------------------------------------------------------ *)
(* Properties                                                         *)
(* ------------------------------------------------------------------ *)

\* the full loss: inflation erosion plus opportunity cost,
\* P*(1 - 1/(1+i)^n) + (P/(1+i)^n)*((1+r)^n - 1)
FullLoss(P, i, r, n) ==
    NumAdd(NumMul(P, NumSub(Int2Num(1),
                            NumDiv(Int2Num(1),
                                   MathPow(NumAdd(Int2Num(1), i), n)))),
           NumMul(NumDiv(P, MathPow(NumAdd(Int2Num(1), i), n)),
                  NumSub(MathPow(NumAdd(Int2Num(1), r), n), Int2Num(1))))

\* the pure inflation erosion P*(1 - 1/(1+i)^n)
Erosion(P, i, n) ==
    NumMul(P, NumSub(Int2Num(1),
                     NumDiv(Int2Num(1), MathPow(NumAdd(Int2Num(1), i), n))))

\* a dataset value that is a finite number or a string whose numeric
\* prefix is one
FiniteValue(v) ==
    \/ v.t = "number" /\ isFinite(v.num)
    \/ v.t = "string" /\ isFinite(ParseFloatStr(v.str))

\* the number such a value stands for
NumberOf(v) == IF v.t = "number" THEN v.num ELSE ParseFloatStr(v.str)

\* a CPI value that is missing, not a finite number, or <= 0
BadCpiValue(v) == ~FiniteValue(v) \/ NumGE(Int2Num(0), NumberOf(v))

\* the record the most recent runCalculation call found
LastCountry == countryData.countries[lastRun.country]

\* C1: for P >= 0, 1 + i > 0 and n in {1, 5, 10}, computeLoss returns the
\* full loss (erosion plus opportunity cost) in both builds
C1_EveryComputeLossIsFullLoss ==
    (/\ calc.done
     /\ NumGE(calc.P, Int2Num(0))
     /\ NumGT(NumAdd(Int2Num(1), calc.i), Int2Num(0))
     /\ calc.n \in Horizons)
    => /\ calc.loss = FullLoss(calc.P, calc.i, calc.r, calc.n)
       /\ calc.lossApp = FullLoss(calc.P, calc.i, calc.r, calc.n)

\* C2: the 1-year value runCalculation computes for a finite amount >= 0
\* equals computeLoss(amount, i, r, 1)
C2_OneYearIsGeneralFormula ==
    (lastRun.computed /\ isFinite(lastRun.amount))
    => lastRun.values.y1
         = computeLoss(lastRun.amount, lastRun.inputs.inflationRate,
                       lastRun.inputs.interestRate, 1)

\* C3: getInputs returns null exactly when the CPI object or a CPI value is
\* missing, is not a finite number or is <= 0, and latest/previous - 1
\* otherwise; right after a runCalculation call that got null, the three
\* results show the placeholder, no value was computed and no timer was
\* scheduled
C3_UnavailableExactlyOnBadCpi ==
    lastRun.derived
    => /\ ~lastRun.computed
          <=> \/ ~LastCountry.cpi.present
              \/ BadCpiValue(LastCountry.cpi.latest)
              \/ BadCpiValue(LastCountry.cpi.previous)
       /\ lastRun.computed
          => lastRun.inputs.inflationRate
               = NumSub(NumDiv(NumberOf(LastCountry.cpi.latest),
                               NumberOf(LastCountry.cpi.previous)),
                        Int2Num(1))
       /\ (lastEvent = "run" /\ ~lastRun.computed)
          => /\ lossText = Dashes
             /\ lastRun.values = NoValues
             /\ Len(timers) = lastRun.timersBefore

\* C3 witness: a call just ended that read a record whose previous CPI is 0
C3_Witness ==
    /\ lastEvent = "run"
    /\ lastRun.derived
    /\ ~lastRun.computed
    /\ LastCountry.cpi.previous = JInt(0)
    /\ lossText = Dashes

\* C4: for a record with a valid CPI pair, hasRate is true and interestRate
\* is value/100 when rate.value is a finite number (0 included), and
\* hasRate is false and interestRate is 0 otherwise
C4_HasRateTellsZeroFromAbsent ==
    lastRun.computed
    => IF LastCountry.rate.present /\ FiniteValue(LastCountry.rate.value)
       THEN /\ lastRun.inputs.hasRate
            /\ lastRun.inputs.interestRate
                 = NumDiv(NumberOf(LastCountry.rate.value), Int2Num(100))
       ELSE /\ ~lastRun.inputs.hasRate
            /\ lastRun.inputs.interestRate = Int2Num(0)

\* C4 witness: a record with a valid CPI pair and a measured rate of 0
C4_Witness ==
    /\ lastRun.computed
    /\ LastCountry.rate.present
    /\ LastCountry.rate.value = JInt(0)
    /\ lastRun.inputs.hasRate
    /\ lastRun.inputs.interestRate = Int2Num(0)

\* C5: every displayed loss text is the placeholder (or the markup's text)
\* or the formatting of a finite number
C5_OnlyFiniteNumbersAreFormatted ==
    /\ lossText.y1.kind = "money" => isFinite(lossText.y1.num)
    /\ lossText.y5.kind = "money" => isFinite(lossText.y5.num)
    /\ lossText.y10.kind = "money" => isFinite(lossText.y10.num)

\* what the most recent runCalculation call determines for the display
LastRunTexts ==
    IF lastRun.computed
    THEN [y1  |-> formatMoney(lastRun.values.y1, lastRun.sym),
          y5  |-> formatMoney(lastRun.values.y5, lastRun.sym),
          y10 |-> formatMoney(lastRun.values.y10, lastRun.sym)]
    ELSE Dashes

\* C6: once no timer is pending, the three texts are the ones the most
\* recent runCalculation call determines
C6_LastCallDecidesDisplay ==
    (lastRun.ran /\ ~lastRun.threw /\ timers = << >>)
    => lossText = LastRunTexts

\* an amount text that is missing, non-numeric or negative
InvalidAmountText ==
    \/ isNaN(ParseFloatStr(amountText))
    \/ NumGT(Int2Num(0), ParseFloatStr(amountText))

C8_FallbackWheneverLoadFails ==
    (pc \in {"done", "failed"} /\ loadResult \in {"reject", "notjson", "null"})
    => /\ countryData = DataObject(FALLBACK_COUNTRIES)
       /\ selected = FALLBACK_COUNTRY_ID
       /\ startRuns = 1
       /\ getInputs(FALLBACK_COUNTRIES[1]).ok

\* C9: for a record with a valid CPI pair and no rate, interestRate is 0,
\* hasRate is false and the value computed for a finite amount at each
\* horizon 1, 5, 10 is the pure inflation erosion amount*(1 - 1/(1+i)^n)
C9_NoRateGivesPureErosion ==
    (lastRun.computed /\ isFinite(lastRun.amount)
       /\ ~LastCountry.rate.present)
    => /\ lastRun.inputs.interestRate = Int2Num(0)
       /\ ~lastRun.inputs.hasRate
       /\ lastRun.values.y1
            = Erosion(lastRun.amount, lastRun.inputs.inflationRate, 1)
       /\ lastRun.values.y5
            = Erosion(lastRun.amount, lastRun.inputs.inflationRate, 5)
       /\ lastRun.values.y10
            = Erosion(lastRun.amount, lastRun.inputs.inflationRate, 10)

\* C10 as claimed: for P > 0, i > 0 and r > 0 the loss grows strictly with
\* each further year
C10_IncreasingForPositiveRates ==
    (/\ calc.stepped
     /\ NumGT(calc.P, Int2Num(0))
     /\ NumGT(calc.i, Int2Num(0))
     /\ NumGT(calc.r, Int2Num(0)))
    => NumGT(calc.loss, calc.prev)

\* C10 amended: for P > 0 and r >= i > 0 the loss grows strictly with each
\* further year, in both builds
C10_IncreasingWhenRateCoversInflation ==
    (/\ calc.stepped
     /\ NumGT(calc.P, Int2Num(0))
     /\ NumGT(calc.i, Int2Num(0))
     /\ NumGE(calc.r, calc.i))
    => /\ NumGT(calc.loss, calc.prev)
       /\ NumGT(calc.lossApp, calc.prevApp)

\* C10 witness: the step from year 4 to year 5 with r > i > 0
C10_Witness ==
    /\ calc.stepped
    /\ calc.n = 5
    /\ calc.P = Int2Num(2)
    /\ calc.i = Fin(1, 2)
    /\ calc.r = Int2Num(1)
    /\ NumGT(calc.loss, calc.prev)

\* C11 as claimed: for amount >= 0 and i >= 0, computeLoss of the wave-3
\* build is >= 0 at every horizon and for every interest rate, the
\* negative ones included
C11_NeverNegative ==
    (/\ calc.done
     /\ NumGE(calc.P, Int2Num(0))
     /\ NumGE(calc.i, Int2Num(0)))
    => NumGE(calc.loss, Int2Num(0))

\* C11 amended: for amount >= 0, i >= 0 and r >= -i, computeLoss of the
\* wave-3 build is >= 0 at every horizon; r >= i is not needed
C11_NeverNegativeWhenRateCoversDeflation ==
    (/\ calc.done
     /\ NumGE(calc.P, Int2Num(0))
     /\ NumGE(calc.i, Int2Num(0))
     /\ NumGE(calc.r, NumNeg(calc.i)))
    => NumGE(calc.loss, Int2Num(0))

\* C11 witness: a 5-year loss with a negative interest rate, r = -i < i
C11_Witness ==
    /\ calc.done
    /\ calc.n = 5
    /\ calc.P = Int2Num(2)
    /\ calc.i = Fin(1, 2)
    /\ calc.r = Fin(-1, 2)
    /\ NumGT(calc.loss, Int2Num(0))

\* C12: computeLoss(0, i, r, n) = 0 in both builds for every i, r and n,
\* the rates with 1 + i <= 0 included
C12_ZeroAmountZeroLoss ==
    (calc.done /\ calc.P = Int2Num(0))
    => /\ calc.loss = Int2Num(0)
       /\ calc.lossApp = Int2Num(0)

\* C13: whenever openPopup has called buildHowCalculatedPopup, the content
\* is the generic placeholder exactly when there is no country, no CPI
\* object or no derived inputs; otherwise it is the full explanation, whose
\* interest section is the single 'rate unavailable' note with no formula
\* exactly when inputs.hasRate is false, and carries the substituted
\* formula exactly when inputs.hasRate is true
C13_PopupShapeFollowsInputs ==
    (popup.open /\ ~popup.threw)
    => /\ popup.content.shape \in {"placeholder", "full"}
       /\ (popup.content.shape = "placeholder")
              <=> (~popup.hasCountry \/ ~popup.hasCpi \/ ~popup.inputs.ok)
       /\ (popup.content.shape = "full")
              => /\ (~popup.inputs.hasRate)
                     <=> (popup.content.interest
                            = << [tag |-> "p",
                                  text |-> "rate unavailable, interestRate = 0"] >>)
                 /\ popup.inputs.hasRate
                     <=> (\E k \in 1..Len(popup.content.interest) :
                             popup.content.interest[k]
                               = [tag |-> "code",
                                  text |-> "interestRate = rateValue / 100 = percent"])

\* C13 witness: the popup is open with the full explanation for a record
\* whose rate is 0 (present), showing the substituted formula
C13_Witness ==
    /\ popup.open
    /\ popup.content.shape = "full"
    /\ popup.inputs.hasRate
    /\ popup.inputs.interestRate = Int2Num(0)
    /\ Len(popup.content.interest) = 3

\* the ids of the loaded dataset's records
LoadedIds == {countryData.countries[k].id : k \in 1..Len(countryData.countries)}

\* a non-empty dataset was loaded
LoadedDataset == loadResult = "list" /\ Len(countryData.countries) > 0

\* C14: with a loaded, non-empty dataset, however the geolocation lookup
\* settles, the step that ends startup selects a record of the dataset (the
\* geolocated code if the dataset has it, else 'US' if the dataset has it,
\* else the first record) and makes the chain's one runCalculation call
\* with that selection; no later step makes the chain call it again
C14_StartupSelectsInOrderAndRunsOnce ==
    [][/\ \A o \in GeoOutcomes :
            (LoadedDataset /\ preSelectCountryFromIP(o))
            => /\ pc' = "done"
               /\ selected' \in LoadedIds
               /\ (o.how = "json" /\ o.code \in LoadedIds)
                      => selected' = o.code
               /\ (~(o.how = "json" /\ o.code \in LoadedIds)
                     /\ "US" \in LoadedIds)
                      => selected' = "US"
               /\ (~(o.how = "json" /\ o.code \in LoadedIds)
                     /\ "US" \notin LoadedIds)
                      => selected' = countryData.countries[1].id
               /\ startRuns = 0
               /\ startRuns' = 1
               /\ lastRun'.ran
               /\ ~lastRun'.threw
               /\ lastRun'.country \in 1..Len(countryData.countries)
               /\ countryData.countries[lastRun'.country].id = selected'
       /\ (LoadedDataset /\ pc = "done")
            => (pc' = "done" /\ startRuns' = 1 /\ startRuns = 1)
      ]_vars

\* C14 witness: startup has ended on a dataset that holds 'US' first, with
\* the geolocated 'FR' selected and the one startup calculation made for it
C14_Witness ==
    /\ pc = "done"
    /\ LoadedDataset
    /\ countryData.countries[1].id = "US"
    /\ selected = "FR"
    /\ startRuns = 1
    /\ lastEvent = "run"
    /\ lastRun.country = 2
    /\ amountText = << >>
====
